---- MODULE Spec2Model ----
(***************************************************************************)
(* A model of the bladeRF radio-frontend driver rf_blade_imp.c: the device  *)
(* handle, the per-direction stream control, the multi-channel setters,     *)
(* timed send and timed receive, and the error-handler relay.               *)
(*                                                                          *)
(* The vendor library (libbladeRF) is outside the repository.  Each vendor  *)
(* call is modelled by its status, drawn from an oracle F (the set of the   *)
(* ordinals, within one driver call, of the vendor calls that fail), and by *)
(* its effect on a ghost copy of the device (which channel modules are      *)
(* enabled, whether the device is acquired).  Every driver function is one  *)
(* action; the vendor calls it issued are recorded, in order, in last.calls.*)
(***************************************************************************)
EXTENDS Integers, Sequences, FiniteSets, TLC

(***************************************************************************)
(* Program constants                                                        *)
(***************************************************************************)
BLADERF_MAX_PORTS == 2
\* 240 * 1024
CONVERT_BUFFER_SIZE == 245760
\* SRSRAN_MAX_PORTS comes from the srsRAN headers; rf_blade_send_timed
\* initialises a void*[SRSRAN_MAX_PORTS] with four pointers.
SRSRAN_MAX_PORTS == 4
SRSRAN_SUCCESS == 0
SRSRAN_ERROR == -1
\* the channel-count limit of rf_blade_open_multi
MAX_OPEN_CHANNELS == 2
\* the default sampling rate applied by rf_blade_open_multi (1.92e6)
DEFAULT_SRATE == 1920000
\* below this rate the RX filter bandwidth is the full rate
BW_FULL_RATE_LIMIT == 2000000

\* libbladeRF.h values, as the driver uses them
BLADERF_ERR_IO == -5
BLADERF_ERR_TIME_PAST == -14
BLADERF_META_STATUS_OVERRUN == 1
BLADERF_META_STATUS_UNDERRUN == 2

BLADERF_CHANNEL_RX(ch) == 2 * ch
BLADERF_CHANNEL_TX(ch) == 2 * ch + 1

(***************************************************************************)
(* Bounds of the model                                                      *)
(***************************************************************************)
\* vendor calls that may fail within one driver call
MaxFaults == 1
\* largest "small" sample count of a timed send or receive
MaxN == 2
\* opaque arguments a caller may register with an error handler
MaxArg == 1
\* nof_channels values tried above the limit of rf_blade_open_multi
MaxExtraChannels == 1
\* a float is a whole number of 1 / (2048 * SUB)
SUB == 2
\* frac_secs is the rational fnum / FRAC_DEN
FRAC_DEN == 2
\* the layout round trip: nsamples is 2, 4, .., 2 * MaxPairs
MaxPairs == 2
\* the layout round trip: base values of the buffer content
MaxSeed == 3

Ports == 0 .. (BLADERF_MAX_PORTS - 1)

\* a second rate, at/above BW_FULL_RATE_LIMIT, the device may grant
Rates == {DEFAULT_SRATE, 5 * DEFAULT_SRATE}

VARIABLES
  proc,                    \* "running", or "crashed" after a fault (SIGSEGV)
  phase,                   \* the caller: "init", "opened" (open returned 0), "closed"
                           \* (one handle per process: a failed open may be retried)
  h,                       \* the caller's void* h: "unset", "NULL", "handler"
  allocated,               \* the rf_blade_handler_t block h names is live (not freed)
  handler,                 \* rf_blade_handler_t
  dev,                     \* ghost: the device as the vendor library sees it
  blade_error_handler,     \* static blade_error_handler: "NULL" or "fn"
  blade_error_handler_arg, \* static blade_error_handler_arg
  last,                    \* the last driver call: name, inputs, result, vendor calls
  conv                     \* sample buffers of the layout round trip

vars == <<proc, phase, h, allocated, handler, dev, blade_error_handler,
          blade_error_handler_arg, last, conv>>

(***************************************************************************)
(* The vendor library                                                       *)
(***************************************************************************)
\* Oracles over a driver call issuing at most n vendor calls
RECURSIVE FaultSets(_, _)
\* the sets of at most f ordinals among 1 .. n
FaultSets(n, f) ==
  IF f = 0 THEN {{}}
  ELSE LET S == FaultSets(n, f - 1) IN S \cup {F \cup {k} : F \in S, k \in 1 .. n}

Oracles(n) == FaultSets(n, MaxFaults)

\* flags[ch] = v
SetFlag(flags, ch, v) == [p \in Ports |-> IF p = ch THEN v ELSE flags[p]]

\* ghost effect of a successful vendor call on the device
DevEffect(dv, fn, ch, arg) ==
  CASE fn = "bladerf_enable_module" ->
         IF ch % 2 = 0
         THEN [dv EXCEPT !.rx_on = SetFlag(@, ch \div 2, arg = 1)]
         ELSE [dv EXCEPT !.tx_on = SetFlag(@, ch \div 2, arg = 1)]
    \* a freshly opened device has had no module enabled through it
    [] fn = "bladerf_open"  -> [acquired |-> TRUE,
                                rx_on |-> [p \in Ports |-> FALSE],
                                tx_on |-> [p \in Ports |-> FALSE]]
    [] fn = "bladerf_close" -> [dv EXCEPT !.acquired = FALSE]
    [] OTHER -> dv

\* A machine state m threads the handler, the device and the call log through
\* one driver call.  VendorSt issues the next vendor call with status st: a
\* failed call has no effect on the device.  Each record keeps the TX flags
\* the handler held when the call was issued.
VendorSt(m, fn, ch, arg, out, st) ==
  [m EXCEPT !.calls = Append(@, [fn |-> fn, ch |-> ch, arg |-> arg, out |-> out,
                                 status |-> st, tx_on |-> m.hd.tx_stream_enabled]),
            !.dv = IF st = 0 THEN DevEffect(@, fn, ch, arg) ELSE @]

\* a vendor call whose status the oracle F decides: it fails when its ordinal
\* within the driver call is in F
Vendor(m, F, fn, ch, arg, err) ==
  VendorSt(m, fn, ch, arg, 0, IF (Len(m.calls) + 1) \in F THEN err ELSE 0)

\* the same, for a call with an out-parameter (written on success only)
VendorOut(m, F, fn, ch, arg, out, err) ==
  VendorSt(m, fn, ch, arg, out, IF (Len(m.calls) + 1) \in F THEN err ELSE 0)

Status(m) == m.calls[Len(m.calls)].status

NoMeta == [issued |-> FALSE, flags |-> {}, timestamp |-> 0]

Machine(hd, dv) ==
  [hd |-> hd, dv |-> dv, calls |-> <<>>, events |-> <<>>, log |-> <<>>, meta |-> NoMeta]

\* ERROR(...): one line on the error log
Error(m, line) == [m EXCEPT !.log = Append(@, line)]

(***************************************************************************)
(* Stream control                                                           *)
(***************************************************************************)
RECURSIVE EnableTxLoop(_, _, _)
\* for (ch = 0; ch < nof_tx_channels; ch++) enable TX(ch), set its flag
EnableTxLoop(m, F, ch) ==
  IF ch >= m.hd.nof_tx_channels THEN [m |-> m, ret |-> 0]
  ELSE LET m1 == Vendor(m, F, "bladerf_enable_module", BLADERF_CHANNEL_TX(ch), 1, BLADERF_ERR_IO)
       IN  IF Status(m1) # 0 THEN [m |-> Error(m1, "vendor call failed"), ret |-> Status(m1)]
           ELSE EnableTxLoop([m1 EXCEPT !.hd.tx_stream_enabled = SetFlag(@, ch, TRUE)], F, ch + 1)

RECURSIVE EnableRxLoop_FlagBeforeStatus(_, _, _)
\* a variant that sets the flag whatever the enable call returned
EnableRxLoop_FlagBeforeStatus(m, F, ch) ==
  IF ch >= m.hd.nof_rx_channels THEN [m |-> m, ret |-> SRSRAN_SUCCESS]
  ELSE LET m1 == Vendor(m, F, "bladerf_enable_module", BLADERF_CHANNEL_RX(ch), 1, BLADERF_ERR_IO)
           m2 == [m1 EXCEPT !.hd.rx_stream_enabled = SetFlag(@, ch, TRUE)]
       IN  IF Status(m1) # 0 THEN [m |-> Error(m2, "vendor call failed"), ret |-> Status(m1)]
           ELSE EnableRxLoop_FlagBeforeStatus(m2, F, ch + 1)

RECURSIVE EnableRxLoop(_, _, _)
EnableRxLoop(m, F, ch) ==
  IF ch >= m.hd.nof_rx_channels THEN [m |-> m, ret |-> SRSRAN_SUCCESS]
  ELSE LET m1 == Vendor(m, F, "bladerf_enable_module", BLADERF_CHANNEL_RX(ch), 1, BLADERF_ERR_IO)
       IN  IF Status(m1) # 0 THEN [m |-> Error(m1, "vendor call failed"), ret |-> Status(m1)]
           ELSE EnableRxLoop([m1 EXCEPT !.hd.rx_stream_enabled = SetFlag(@, ch, TRUE)], F, ch + 1)

RECURSIVE DisableTxLoop(_, _, _)
DisableTxLoop(m, F, ch) ==
  IF ch >= m.hd.nof_tx_channels THEN [m |-> m, ret |-> SRSRAN_SUCCESS]
  ELSE LET m1 == Vendor(m, F, "bladerf_enable_module", BLADERF_CHANNEL_TX(ch), 0, BLADERF_ERR_IO)
       IN  IF Status(m1) # 0 THEN [m |-> Error(m1, "vendor call failed"), ret |-> Status(m1)]
           ELSE DisableTxLoop([m1 EXCEPT !.hd.tx_stream_enabled = SetFlag(@, ch, FALSE)], F, ch + 1)

RECURSIVE DisableRxLoop(_, _, _)
\* the RX loop of rf_blade_stop_rx_stream, followed by its TX loop
DisableRxLoop(m, F, ch) ==
  IF ch >= m.hd.nof_rx_channels THEN DisableTxLoop(m, F, 0)
  ELSE LET m1 == Vendor(m, F, "bladerf_enable_module", BLADERF_CHANNEL_RX(ch), 0, BLADERF_ERR_IO)
       IN  IF Status(m1) # 0 THEN [m |-> Error(m1, "vendor call failed"), ret |-> Status(m1)]
           ELSE DisableRxLoop([m1 EXCEPT !.hd.rx_stream_enabled = SetFlag(@, ch, FALSE)], F, ch + 1)

\* the channel layout argument: 1 for ..._X1, 2 for ..._X2
Layout(nof) == IF nof > 1 THEN 2 ELSE 1

rf_blade_start_tx_stream(m, F) ==
  LET m1 == Vendor(m, F, "bladerf_sync_config", BLADERF_CHANNEL_TX(0),
                   Layout(m.hd.nof_tx_channels), BLADERF_ERR_IO)
  IN  IF Status(m1) # 0 THEN [m |-> Error(m1, "vendor call failed"), ret |-> Status(m1)]
      ELSE EnableTxLoop(m1, F, 0)

rf_blade_start_rx_stream(m, F) ==
  LET m1 == Vendor(m, F, "bladerf_sync_config", BLADERF_CHANNEL_RX(0),
                   Layout(m.hd.nof_rx_channels), BLADERF_ERR_IO)
  IN  IF Status(m1) # 0 THEN [m |-> Error(m1, "vendor call failed"), ret |-> Status(m1)]
      ELSE LET m2 == Vendor(m1, F, "bladerf_sync_config", BLADERF_CHANNEL_TX(0),
                            Layout(m.hd.nof_tx_channels), BLADERF_ERR_IO)
           IN  IF Status(m2) # 0 THEN [m |-> Error(m2, "vendor call failed"), ret |-> Status(m2)]
               ELSE LET r == EnableTxLoop(m2, F, 0)
                    IN  IF r.ret # 0 THEN r ELSE EnableRxLoop(r.m, F, 0)

rf_blade_stop_rx_stream(m, F) == DisableRxLoop(m, F, 0)

(***************************************************************************)
(* Multi-channel setters                                                    *)
(***************************************************************************)
\* (bladerf_bandwidth)(rate * 0.8)
Bw80(rate) == (rate * 8) \div 10

RECURSIVE RxSrateLoop(_, _, _, _, _)
\* act[ch]: the actual rate the device reports for channel ch
RxSrateLoop(m, F, freq, act, ch) ==
  IF ch >= m.hd.nof_rx_channels THEN [m |-> m, ret |-> m.hd.rx_rate]
  ELSE LET m1 == VendorOut(m, F, "bladerf_set_sample_rate", BLADERF_CHANNEL_RX(ch), freq,
                           act[ch], BLADERF_ERR_IO)
       IN  IF Status(m1) # 0 THEN [m |-> Error(m1, "vendor call failed"), ret |-> -1]
           ELSE LET m2 == [m1 EXCEPT !.hd.rx_rate = act[ch]]
                    bw == IF m2.hd.rx_rate < BW_FULL_RATE_LIMIT
                          THEN m2.hd.rx_rate ELSE Bw80(m2.hd.rx_rate)
                    m3 == Vendor(m2, F, "bladerf_set_bandwidth", BLADERF_CHANNEL_RX(ch), bw,
                                 BLADERF_ERR_IO)
                IN  IF Status(m3) # 0 THEN [m |-> Error(m3, "vendor call failed"), ret |-> -1]
                    ELSE RxSrateLoop(m3, F, freq, act, ch + 1)

rf_blade_set_rx_srate(m, F, freq, act) == RxSrateLoop(m, F, freq, act, 0)

RECURSIVE TxSrateLoop_RxBandwidthRule(_, _, _, _, _)
\* a variant that derives the TX bandwidth the way the RX setter does
TxSrateLoop_RxBandwidthRule(m, F, freq, act, ch) ==
  IF ch >= m.hd.nof_tx_channels THEN [m |-> m, ret |-> m.hd.tx_rate]
  ELSE LET m1 == VendorOut(m, F, "bladerf_set_sample_rate", BLADERF_CHANNEL_TX(ch), freq,
                           act[ch], BLADERF_ERR_IO)
       IN  IF Status(m1) # 0 THEN [m |-> Error(m1, "vendor call failed"), ret |-> -1]
           ELSE LET m2 == [m1 EXCEPT !.hd.tx_rate = act[ch]]
                    bw == IF m2.hd.tx_rate < BW_FULL_RATE_LIMIT
                          THEN m2.hd.tx_rate ELSE Bw80(m2.hd.tx_rate)
                    m3 == Vendor(m2, F, "bladerf_set_bandwidth", BLADERF_CHANNEL_TX(ch), bw,
                                 BLADERF_ERR_IO)
                IN  IF Status(m3) # 0 THEN [m |-> Error(m3, "vendor call failed"), ret |-> -1]
                    ELSE TxSrateLoop_RxBandwidthRule(m3, F, freq, act, ch + 1)

RECURSIVE TxSrateLoop(_, _, _, _, _)
TxSrateLoop(m, F, freq, act, ch) ==
  IF ch >= m.hd.nof_tx_channels THEN [m |-> m, ret |-> m.hd.tx_rate]
  ELSE LET m1 == VendorOut(m, F, "bladerf_set_sample_rate", BLADERF_CHANNEL_TX(ch), freq,
                           act[ch], BLADERF_ERR_IO)
       IN  IF Status(m1) # 0 THEN [m |-> Error(m1, "vendor call failed"), ret |-> -1]
           ELSE LET m2 == [m1 EXCEPT !.hd.tx_rate = act[ch]]
                    m3 == Vendor(m2, F, "bladerf_set_bandwidth", BLADERF_CHANNEL_TX(ch),
                                 m2.hd.tx_rate, BLADERF_ERR_IO)
                IN  IF Status(m3) # 0 THEN [m |-> Error(m3, "vendor call failed"), ret |-> -1]
                    ELSE TxSrateLoop(m3, F, freq, act, ch + 1)

rf_blade_set_tx_srate(m, F, freq, act) == TxSrateLoop(m, F, freq, act, 0)

RECURSIVE RxGainLoop_KeepsGoing(_, _, _, _)
\* a variant that reports a failed channel only after trying the others
RxGainLoop_KeepsGoing(m, F, gain, ch) ==
  IF ch >= m.hd.nof_rx_channels THEN [m |-> m, ret |-> SRSRAN_SUCCESS]
  ELSE LET m1 == Vendor(m, F, "bladerf_set_gain", BLADERF_CHANNEL_RX(ch), gain, BLADERF_ERR_IO)
           r  == RxGainLoop_KeepsGoing(m1, F, gain, ch + 1)
       IN  IF Status(m1) # 0 THEN [m |-> Error(r.m, "vendor call failed"), ret |-> SRSRAN_ERROR]
           ELSE r

RECURSIVE RxGainLoop(_, _, _, _)
RxGainLoop(m, F, gain, ch) ==
  IF ch >= m.hd.nof_rx_channels THEN [m |-> m, ret |-> SRSRAN_SUCCESS]
  ELSE LET m1 == Vendor(m, F, "bladerf_set_gain", BLADERF_CHANNEL_RX(ch), gain, BLADERF_ERR_IO)
       IN  IF Status(m1) # 0 THEN [m |-> Error(m1, "vendor call failed"), ret |-> SRSRAN_ERROR]
           ELSE RxGainLoop(m1, F, gain, ch + 1)

rf_blade_set_rx_gain(m, F, gain) == RxGainLoop(m, F, gain, 0)

RECURSIVE TxGainLoop(_, _, _, _)
TxGainLoop(m, F, gain, ch) ==
  IF ch >= m.hd.nof_tx_channels THEN [m |-> m, ret |-> SRSRAN_SUCCESS]
  ELSE LET m1 == Vendor(m, F, "bladerf_set_gain", BLADERF_CHANNEL_TX(ch), gain, BLADERF_ERR_IO)
       IN  IF Status(m1) # 0 THEN [m |-> Error(m1, "vendor call failed"), ret |-> SRSRAN_ERROR]
           ELSE TxGainLoop(m1, F, gain, ch + 1)

rf_blade_set_tx_gain(m, F, gain) == TxGainLoop(m, F, gain, 0)

(***************************************************************************)
(* Lifecycle                                                                *)
(***************************************************************************)
\* the maximum of the RX gain range the device reports (range_rx->max)
RX_GAIN_RANGE_MAX == 60

\* no live rf_blade_handler_t block
NoHandler ==
  [dev |-> "uninit", rx_rate |-> 0, tx_rate |-> 0,
   rx_stream_enabled |-> [p \in Ports |-> FALSE],
   tx_stream_enabled |-> [p \in Ports |-> FALSE],
   info |-> "uninit", nof_rx_channels |-> 0, nof_tx_channels |-> 0]

\* malloc(sizeof(rf_blade_handler_t)): every field holds whatever the block
\* held before (g.flag in each flag, g.rate in each rate)
MallocHandler(g) ==
  [dev |-> "uninit", rx_rate |-> g.rate, tx_rate |-> g.rate,
   rx_stream_enabled |-> [p \in Ports |-> g.flag],
   tx_stream_enabled |-> [p \in Ports |-> g.flag],
   info |-> "uninit", nof_rx_channels |-> 0, nof_tx_channels |-> 0]

Garbage == [flag : BOOLEAN, rate : {0, 5 * DEFAULT_SRATE}]

RECURSIVE OpenRxLoop(_, _, _)
\* per RX channel: manual gain mode, gain range, gain := range maximum
OpenRxLoop(m, F, ch) ==
  IF ch >= m.hd.nof_rx_channels THEN [m |-> m, ret |-> 0]
  ELSE LET m1 == Vendor(m, F, "bladerf_set_gain_mode", BLADERF_CHANNEL_RX(ch), 0, BLADERF_ERR_IO)
       IN  IF Status(m1) # 0 THEN [m |-> Error(m1, "vendor call failed"), ret |-> Status(m1)]
           ELSE LET m2 == VendorOut(m1, F, "bladerf_get_gain_range", BLADERF_CHANNEL_RX(ch), 0,
                                    RX_GAIN_RANGE_MAX, BLADERF_ERR_IO)
                IN  IF Status(m2) # 0 THEN [m |-> Error(m2, "vendor call failed"), ret |-> Status(m2)]
                    ELSE LET m3 == Vendor(m2, F, "bladerf_set_gain", BLADERF_CHANNEL_RX(ch),
                                          RX_GAIN_RANGE_MAX, BLADERF_ERR_IO)
                         IN  IF Status(m3) # 0 THEN [m |-> Error(m3, "vendor call failed"), ret |-> Status(m3)]
                             ELSE OpenRxLoop([m3 EXCEPT !.hd.rx_stream_enabled = SetFlag(@, ch, FALSE)],
                                             F, ch + 1)

RECURSIVE OpenTxLoop(_, _, _)
OpenTxLoop(m, F, ch) ==
  IF ch >= m.hd.nof_tx_channels THEN [m |-> m, ret |-> 0]
  ELSE LET m1 == Vendor(m, F, "bladerf_get_gain_range", BLADERF_CHANNEL_TX(ch), 0, BLADERF_ERR_IO)
       IN  IF Status(m1) # 0 THEN [m |-> Error(m1, "vendor call failed"), ret |-> Status(m1)]
           ELSE OpenTxLoop([m1 EXCEPT !.hd.tx_stream_enabled = SetFlag(@, ch, FALSE)], F, ch + 1)

\* clean_exit: free(handler); return status;  (*h keeps the freed address,
\* the device stays as the vendor calls left it; the freed block's content
\* is no longer state of the program)
CleanExit(m, status) ==
  [h |-> "handler", allocated |-> FALSE, hd |-> NoHandler, dv |-> m.dv, calls |-> m.calls,
   log |-> m.log,
   ret |-> status, crashed |-> FALSE]

\* the channel-count check that opens rf_blade_open_multi
\* a variant that already rejects the largest supported channel count
TooManyChannels_OffByOne(nof_channels) == nof_channels >= MAX_OPEN_CHANNELS

TooManyChannels(nof_channels) == nof_channels > MAX_OPEN_CHANNELS

\* the default rates applied at the end of open: both results are dropped
OpenDefaultRates(m, F, act) ==
  rf_blade_set_rx_srate(rf_blade_set_tx_srate(m, F, DEFAULT_SRATE, act.tx).m,
                        F, DEFAULT_SRATE, act.rx).m

\* pre: the caller's pointer and the state before the call.  g: the content
\* of the malloc'ed block.  act: the rates the device grants (act.tx[ch],
\* act.rx[ch]).  ub: what the
\* read through the NULL range pointers does when no channel loop ran.
rf_blade_open_multi(pre, nof_channels, F, g, act, mallocOk, ub) ==
  IF TooManyChannels(nof_channels)
  THEN [h |-> pre.h, allocated |-> pre.allocated, hd |-> pre.hd, dv |-> pre.dv,
        calls |-> <<>>, log |-> <<"maximum number of channels exceeded">>,
        ret |-> SRSRAN_ERROR, crashed |-> FALSE]
  ELSE IF ~mallocOk
  THEN [h |-> "NULL", allocated |-> FALSE, hd |-> pre.hd, dv |-> pre.dv,
        calls |-> <<>>, log |-> <<"malloc">>, ret |-> -1, crashed |-> FALSE]
  ELSE
    LET hd0 == [MallocHandler(g) EXCEPT !.nof_rx_channels = nof_channels,
                                        !.nof_tx_channels = nof_channels]
        m1  == Vendor(Machine(hd0, pre.dv), F, "bladerf_open", 0, 0, BLADERF_ERR_IO)
    IN  IF Status(m1) # 0 THEN CleanExit(Error(m1, "vendor call failed"), Status(m1))
        ELSE
          LET r == OpenRxLoop([m1 EXCEPT !.hd.dev = "open"], F, 0)
          IN  IF r.ret # 0 THEN CleanExit(r.m, r.ret)
              ELSE
                LET t == OpenTxLoop(r.m, F, 0)
                IN  IF t.ret # 0 THEN CleanExit(t.m, t.ret)
                    ELSE
                      LET m4 == OpenDefaultRates(t.m, F, act)
                          \* range_tx / range_rx are still NULL when nof_channels = 0
                          nullRange == nof_channels = 0
                      IN  [h |-> "handler", allocated |-> TRUE,
                           hd |-> [m4.hd EXCEPT !.info = IF nullRange THEN "garbage" ELSE "set"],
                           dv |-> m4.dv, calls |-> m4.calls, log |-> m4.log,
                           ret |-> SRSRAN_SUCCESS,
                           crashed |-> nullRange /\ ub = "crash"]

\* rf_blade_open: one channel
rf_blade_open(pre, F, g, act, mallocOk, ub) ==
  rf_blade_open_multi(pre, 1, F, g, act, mallocOk, ub)

\* rf_blade_close: bladerf_close(handler->dev), the block is not freed
rf_blade_close(m) ==
  [m |-> [VendorSt(m, "bladerf_close", 0, 0, 0, 0) EXCEPT !.hd.dev = "closed"], ret |-> 0]

(***************************************************************************)
(* 32-bit unsigned arithmetic, on two 16-bit limbs [hi, lo]                 *)
(***************************************************************************)
U32(n) == [hi |-> n \div 65536, lo |-> n % 65536]

\* (uint32_t)(2 * x): the product wraps at 2^32
U32Mul2(x) ==
  LET l == 2 * x.lo IN [hi |-> (2 * x.hi + l \div 65536) % 65536, lo |-> l % 65536]

\* x / 2
U32Half(x) == [hi |-> x.hi \div 2, lo |-> (x.lo + 65536 * (x.hi % 2)) \div 2]

\* x > c, for a constant c < 2^31
U32Gt(x, c) == x.hi > c \div 65536 \/ (x.hi = c \div 65536 /\ x.lo > c % 65536)

\* the value of x, for x < 2^31
U32Val(x) == x.hi * 65536 + x.lo

(***************************************************************************)
(* Error relay                                                              *)
(***************************************************************************)
\* if (blade_error_handler) { blade_error_handler(arg, error); } else { ERROR(...); }
Relay(m, eh, type, opt, line) ==
  IF eh.fn # "NULL"
  THEN [m EXCEPT !.events = Append(@, [type |-> type, opt |-> opt, arg |-> eh.arg])]
  ELSE Error(m, line)

(***************************************************************************)
(* Timed send                                                               *)
(***************************************************************************)

\* srsran_timestamp_uint64: full_secs * srate + round(frac_secs * srate)
srsran_timestamp_uint64(secs, fnum, srate) ==
  secs * srate + (2 * fnum * srate + FRAC_DEN) \div (2 * FRAC_DEN)

RECURSIVE LazyStartLoop(_, _, _)
\* for each TX channel whose flag is false: rf_blade_start_tx_stream(h), its
\* result dropped
LazyStartLoop(m, F, ch) ==
  IF ch >= m.hd.nof_tx_channels THEN m
  ELSE IF ~m.hd.tx_stream_enabled[ch]
       THEN LazyStartLoop(rf_blade_start_tx_stream(m, F).m, F, ch + 1)
       ELSE LazyStartLoop(m, F, ch + 1)

\* the metadata of the transfer
\* a variant that sets the timestamp or TX_NOW outside the burst-start branch
SendMeta_TimeOnEveryTransfer(hd, secs, fnum, has_time_spec, is_start_of_burst, is_end_of_burst) ==
  [issued |-> TRUE,
   flags |-> (IF ~has_time_spec THEN {"TX_NOW"} ELSE {})
             \cup (IF is_start_of_burst THEN {"TX_BURST_START"} ELSE {})
             \cup (IF is_end_of_burst THEN {"TX_BURST_END"} ELSE {}),
   timestamp |-> IF has_time_spec THEN srsran_timestamp_uint64(secs, fnum, hd.tx_rate) ELSE 0]

SendMeta(hd, secs, fnum, has_time_spec, is_start_of_burst, is_end_of_burst) ==
  [issued |-> TRUE,
   flags |-> (IF is_start_of_burst /\ ~has_time_spec THEN {"TX_NOW"} ELSE {})
             \cup (IF is_start_of_burst THEN {"TX_BURST_START"} ELSE {})
             \cup (IF is_end_of_burst THEN {"TX_BURST_END"} ELSE {}),
   timestamp |-> IF is_start_of_burst /\ has_time_spec
                 THEN srsran_timestamp_uint64(secs, fnum, hd.tx_rate) ELSE 0]

\* a variant that treats a late timestamp like any other failed transfer
SendStatus_LateAborts(m, x, eh, nsamples) ==
  IF x.status # 0
  THEN [m |-> Error(m, "TX failed"), ret |-> x.status]
  ELSE IF x.meta_status = BLADERF_META_STATUS_UNDERRUN
  THEN [m |-> Relay(m, eh, "UNDERFLOW", 0, "TX warning: underflow detected."),
        ret |-> nsamples]
  ELSE [m |-> m, ret |-> nsamples]

\* what follows bladerf_sync_tx: x.status is its status, x.meta_status the
\* meta.status it left
SendStatus(m, x, eh, nsamples) ==
  IF x.status = BLADERF_ERR_TIME_PAST
  THEN [m |-> Relay(m, eh, "LATE", 0, "TX failed"), ret |-> nsamples]
  ELSE IF x.status # 0
  THEN [m |-> Error(m, "TX failed"), ret |-> x.status]
  ELSE IF x.meta_status = BLADERF_META_STATUS_UNDERRUN
  THEN [m |-> Relay(m, eh, "UNDERFLOW", 0, "TX warning: underflow detected."),
        ret |-> nsamples]
  ELSE [m |-> m, ret |-> nsamples]

\* i: the inputs [nsamples, secs, fnum, has_time_spec, sob, eob]; x: the
\* outcome of the transfer; eh: the registered handler [fn, arg].
\* The per-channel buffers (data[0], data[1]) are the caller's and non-NULL;
\* their content is followed in LayoutSend.
rf_blade_send_timed_multi(m, F, i, x, eh) ==
  LET m1 == LazyStartLoop(m, F, 0)
  IN  IF BLADERF_MAX_PORTS * i.nsamples > CONVERT_BUFFER_SIZE
      THEN [m |-> Error(m1, "TX failed: nsamples exceeds buffer size"), ret |-> -1]
      ELSE LET meta == SendMeta(m1.hd, i.secs, i.fnum, i.has_time_spec, i.sob, i.eob)
               m2   == [VendorSt(m1, "bladerf_sync_tx", 0, i.nsamples, 0, x.status)
                          EXCEPT !.meta = meta]
           IN  SendStatus(m2, x, eh, i.nsamples)

\* rf_blade_send_timed: data[1..3] = zero_mem
rf_blade_send_timed(m, F, i, x, eh) == rf_blade_send_timed_multi(m, F, i, x, eh)

(***************************************************************************)
(* Timed receive                                                            *)
(***************************************************************************)
\* int16_t values rx_buffer holds
RxBufferCapacity == CONVERT_BUFFER_SIZE * SRSRAN_MAX_PORTS

\* the guard of the receive path, in uint32_t arithmetic
RxGuard(nsamples) == U32Gt(U32Mul2(nsamples), CONVERT_BUFFER_SIZE)

\* bladerf_sync_rx stores nsamples SC16 Q11 samples, two int16_t each, in
\* rx_buffer: more than the buffer holds when nsamples > capacity / 2
RxOverflows(nsamples) == U32Gt(nsamples, RxBufferCapacity \div 2)

\* the split loop, iteration i: data[i >= nsamples / 2 ? 1 : 0]
SplitChannel(i, nsamples) == IF i >= U32Val(U32Half(nsamples)) THEN 1 ELSE 0

\* possibleIndex = i - nsamples / 2; if (possibleIndex < 0) possibleIndex = i;
SplitIndex(i, nsamples) ==
  LET possibleIndex == i - U32Val(U32Half(nsamples))
  IN  IF possibleIndex < 0 THEN i ELSE possibleIndex

\* some iteration of the split loop stores through a NULL data[] entry:
\* nbufs is the number of buffers the caller supplied (data[0 .. nbufs-1])
SplitFaults(nsamples, nbufs) ==
  \E i \in 0 .. (U32Val(U32Mul2(nsamples)) - 1) : SplitChannel(i, nsamples) >= nbufs

\* some iteration of the split loop stores outside its channel's buffer of
\* nsamples complex samples, 2 * nsamples floats
SplitStrays(nsamples) ==
  \E i \in 0 .. (U32Val(U32Mul2(nsamples)) - 1) :
    SplitIndex(i, nsamples) >= U32Val(U32Mul2(nsamples))

\* the sample counts a receive is tried with: small ones, the two around the
\* guard, and two whose doubling wraps
GuardLimit == CONVERT_BUFFER_SIZE \div BLADERF_MAX_PORTS

RecvSamples ==
  {U32(n) : n \in 0 .. MaxN} \cup {U32(GuardLimit), U32(GuardLimit + 1)}
  \cup {[hi |-> 32768, lo |-> 0], [hi |-> 32768, lo |-> 1]}

\* SplitFaults, tabulated once over the counts that pass the guard and fit
SplitFaultsAt ==
  [n \in {s \in RecvSamples : ~RxGuard(s) /\ ~RxOverflows(s)}, nbufs \in 0 .. BLADERF_MAX_PORTS
     |-> SplitFaults(n, nbufs)]

\* SplitStrays, tabulated once over the same counts
SplitStraysAt ==
  [n \in {s \in RecvSamples : ~RxGuard(s) /\ ~RxOverflows(s)} |-> SplitStrays(n)]

(***************************************************************************)
(* timestamp_to_secs works in double.  A bit string is a sequence of 0 / 1, *)
(* most significant first; a double is [sig, exp], the value sig * 2^exp    *)
(* with sig a bit string of at most DBL_MANT_DIG bits that starts with 1,   *)
(* or <<>> for 0.0.                                                         *)
(***************************************************************************)
\* bits in the significand of a double
DBL_MANT_DIG == 53

\* uint64_t: four 16-bit limbs, most significant first
U64(n) == <<0, 0, n \div 65536, n % 65536>>

RECURSIVE LimbBits(_, _)
\* the low w bits of v
LimbBits(v, w) == IF w = 0 THEN <<>> ELSE Append(LimbBits(v \div 2, w - 1), v % 2)

Bits64(t) == LimbBits(t[1], 16) \o LimbBits(t[2], 16) \o LimbBits(t[3], 16) \o LimbBits(t[4], 16)

RECURSIVE Strip(_)
\* without the leading zeros
Strip(b) == IF b = <<>> \/ b[1] = 1 THEN b ELSE Strip(Tail(b))

ZeroBits(n) == [k \in 1 .. n |-> 0]

RECURSIVE Incr(_)
\* b + 1; one bit longer when b is all ones
Incr(b) ==
  IF b = <<>> THEN <<1>>
  ELSE IF b[Len(b)] = 0 THEN Append(SubSeq(b, 1, Len(b) - 1), 1)
  ELSE Append(Incr(SubSeq(b, 1, Len(b) - 1)), 0)

\* round to nearest, ties to even: b starts with 1, sticky says that
\* something non-zero follows b; the result is [sig, exp] in units of b's
\* last bit
RoundNearestEven(b, sticky) ==
  IF Len(b) <= DBL_MANT_DIG THEN [sig |-> b, exp |-> 0]
  ELSE LET keep == SubSeq(b, 1, DBL_MANT_DIG)
           rest == sticky \/ \E k \in (DBL_MANT_DIG + 2) .. Len(b) : b[k] = 1
           up   == b[DBL_MANT_DIG + 1] = 1 /\ (rest \/ keep[DBL_MANT_DIG] = 1)
           inc  == IF up THEN Incr(keep) ELSE keep
       IN  IF Len(inc) > DBL_MANT_DIG
           THEN [sig |-> SubSeq(inc, 1, DBL_MANT_DIG), exp |-> Len(b) - DBL_MANT_DIG + 1]
           ELSE [sig |-> inc, exp |-> Len(b) - DBL_MANT_DIG]

\* (double)timestamp
DoubleOfU64(t) == RoundNearestEven(Strip(Bits64(t)), FALSE)

RECURSIVE DivLoop(_, _, _, _, _)
\* long division of the bit string D, followed by zeros after the binary
\* point, by rate < 2^30, from position pos with remainder rem: q collects
\* the quotient bits from the first 1 on, until it has one bit more than a
\* significand or the division comes out even
DivLoop(D, rate, pos, rem, q) ==
  IF Len(q) > DBL_MANT_DIG \/ (pos > Len(D) /\ rem = 0) THEN [q |-> q, pos |-> pos, rem |-> rem]
  ELSE LET r2 == 2 * rem + (IF pos <= Len(D) THEN D[pos] ELSE 0)
           qb == IF r2 >= rate THEN 1 ELSE 0
       IN  DivLoop(D, rate, pos + 1, r2 - qb * rate,
                   IF q = <<>> /\ qb = 0 THEN q ELSE Append(q, qb))

\* x / rate in double, rate > 0 (a uint32_t converts exactly)
DoubleDiv(x, rate) ==
  LET D == x.sig \o ZeroBits(x.exp)
      d == DivLoop(D, rate, 1, 0, <<>>)
      r == RoundNearestEven(d.q, d.rem # 0)
  IN  IF d.q = <<>> THEN [sig |-> <<>>, exp |-> 0]
      \* the last quotient bit, at position d.pos - 1, weighs 2^(Len(D) - (d.pos - 1))
      ELSE [sig |-> r.sig, exp |-> r.exp + Len(D) - (d.pos - 1)]

\* (time_t)x: the bits of x before the binary point
DoubleTrunc(x) ==
  IF x.exp >= 0 THEN Strip(x.sig \o ZeroBits(x.exp))
  ELSE IF Len(x.sig) + x.exp > 0 THEN SubSeq(x.sig, 1, Len(x.sig) + x.exp)
  ELSE <<>>

\* x - (double)(time_t)x, exact: the bits of x after the binary point
DoubleFrac(x) ==
  IF x.exp >= 0 THEN <<>>
  ELSE IF Len(x.sig) + x.exp > 0 THEN SubSeq(x.sig, Len(x.sig) + x.exp + 1, Len(x.sig))
  ELSE ZeroBits(-(Len(x.sig) + x.exp)) \o x.sig

\* timestamp_to_secs: *secs as a bit string, *frac_secs as the bits after
\* the binary point.  With rate = 0 the quotient is infinite or NaN and its
\* conversion to time_t is undefined: no value is given then.
timestamp_to_secs(rate, timestamp) ==
  IF rate > 0
  THEN LET totalsecs == DoubleDiv(DoubleOfU64(timestamp), rate)
       IN  [defined |-> TRUE, secs |-> DoubleTrunc(totalsecs), frac_secs |-> DoubleFrac(totalsecs)]
  ELSE [defined |-> FALSE, secs |-> <<>>, frac_secs |-> <<>>]

\* *secs and *frac_secs of a call that returned before writing them
TimeUnset == [defined |-> FALSE, secs |-> <<>>, frac_secs |-> <<>>]

\* the timestamps a conversion is tried with: 0, 1, 1.5 s at 1 MHz and at
\* DEFAULT_SRATE, 2^52 - 1, 2^53 + 1 and 10^19 - 1
TimeSamples ==
  {U64(0), U64(1), U64(1500000), U64((3 * DEFAULT_SRATE) \div 2),
   <<15, 65535, 65535, 65535>>, <<32, 0, 0, 1>>, <<35527, 8964, 35303, 65535>>}

\* the RX rates a conversion is tried with; 0 is what a handle of no
\* channels may hold
TimeRates == Rates \cup {1000000, 0}

\* timestamp_to_secs, tabulated once
TimestampToSecsAt == [rate \in TimeRates, t \in TimeSamples |-> timestamp_to_secs(rate, t)]

\* nsamples: a uint32_t.  nbufs: the buffers behind data[].  x: the outcome
\* of bladerf_sync_rx [status, meta_status, actual_count, timestamp].
\* ub: what a store outside rx_buffer or outside a channel's buffer does.  The result carries the number
\* of int16_t values the transfer stored and the loop converted.
rf_blade_recv_with_time_multi(m, nsamples, nbufs, x, eh, ub) ==
  IF RxGuard(nsamples)
  THEN [m |-> Error(m, "RX failed: nsamples exceeds buffer size"), ret |-> -1,
        fault |-> "none", overflow |-> FALSE, converted |-> 0,
        null_store |-> FALSE, stray |-> FALSE, time |-> TimeUnset]
  ELSE
    LET m1 == VendorSt(m, "bladerf_sync_rx", 0, nsamples, 0, x.status)
        n2 == U32Val(U32Mul2(nsamples))
    IN  IF RxOverflows(nsamples)
        THEN [m |-> m1, ret |-> -1, fault |-> ub, overflow |-> TRUE, converted |-> 0,
              null_store |-> FALSE, stray |-> FALSE, time |-> TimeUnset]
        ELSE IF x.status # 0
        THEN [m |-> Error(m1, "RX failed"), ret |-> -1, fault |-> "none",
              overflow |-> FALSE, converted |-> 0, null_store |-> FALSE, stray |-> FALSE,
              time |-> TimeUnset]
        ELSE
          \* meta.status & BLADERF_META_STATUS_OVERRUN
          LET m2 == IF (x.meta_status \div BLADERF_META_STATUS_OVERRUN) % 2 = 1
                    THEN Relay(m1, eh, "OVERFLOW", x.actual_count,
                               "Overrun detected in scheduled RX.")
                    ELSE m1
          IN  [m |-> m2, ret |-> U32Val(nsamples),
               fault |-> IF SplitFaultsAt[nsamples, nbufs] THEN "crash"
                         ELSE IF SplitStraysAt[nsamples] THEN ub ELSE "none",
               overflow |-> FALSE, converted |-> n2,
               null_store |-> SplitFaultsAt[nsamples, nbufs],
               stray |-> ~SplitFaultsAt[nsamples, nbufs] /\ SplitStraysAt[nsamples],
               time |-> TimestampToSecsAt[m2.hd.rx_rate, x.timestamp]]

\* rf_blade_recv_with_time: data_multi = {data, NULL}
rf_blade_recv_with_time(m, nsamples, x, eh, ub) ==
  rf_blade_recv_with_time_multi(m, nsamples, 1, x, eh, ub)

\* rf_blade_get_time.  timestamp: what bladerf_get_timestamp stores;
\* junk: what the uninitialised meta.timestamp holds when it stores nothing
rf_blade_get_time(m, F, timestamp, junk) ==
  LET m1 == Vendor(m, F, "bladerf_get_timestamp", 0, 0, BLADERF_ERR_IO)
      m2 == IF Status(m1) # 0 THEN Error(m1, "vendor call failed") ELSE m1
      t  == IF Status(m1) # 0 THEN junk ELSE timestamp
  IN  [m |-> m2, ret |-> 0, timestamp |-> t, time |-> TimestampToSecsAt[m2.hd.rx_rate, t]]

(***************************************************************************)
(* Sample layout of the send and receive paths                              *)
(*                                                                          *)
(* A float is an integer count of 1 / (2048 * SUB): SUB sub-steps per       *)
(* fixed-point step of 1 / 2048.  A buffer is a function from 0 .. len-1.   *)
(***************************************************************************)

\* buf[k] = v
Store(buf, k, v) == [j \in DOMAIN buf |-> IF j = k THEN v ELSE buf[j]]

Zeros(len) == [j \in 0 .. (len - 1) |-> 0]

RECURSIVE SendLoop(_, _, _, _)
\* for (i = 0; i < 2 * nsamples; i++)
\*   interleavedBuffer[nsamples * (i % 2) + i / 2] = data[i % 2][i / 2];
SendLoop(interleavedBuffer, data, nsamples, i) ==
  IF i >= 2 * nsamples THEN interleavedBuffer
  ELSE SendLoop(Store(interleavedBuffer, nsamples * (i % 2) + i \div 2, data[i % 2][i \div 2]),
                data, nsamples, i + 1)

\* srsran_vec_convert_fi: z[i] = (int16_t)(x[i] * scale), the cast truncates
srsran_vec_convert_fi(x) ==
  [j \in DOMAIN x |-> IF x[j] >= 0 THEN x[j] \div SUB ELSE -((-x[j]) \div SUB)]

\* srsran_vec_convert_if: z[i] = (float)x[i] / scale
srsran_vec_convert_if(x) == [j \in DOMAIN x |-> x[j] * SUB]

\* the send path from the per-channel buffers to tx_buffer (before the
\* vendor's own interleaving)
LayoutSend(data, nsamples) ==
  srsran_vec_convert_fi(SendLoop(Zeros(2 * nsamples), data, nsamples, 0))

RECURSIVE SplitLoop(_, _, _, _, _)
\* for (i = 0; i < 2 * nsamples; i++) channelBuf[possibleIndex] = tempBuf[i];
\* d: [data: the buffers, written: the <<channel, index>> stored to,
\*     fault: a store went through a NULL data[] entry]
SplitLoop(d, tempBuf, nsamples, nbufs, i) ==
  IF i >= 2 * nsamples \/ d.fault THEN d
  ELSE LET ch  == SplitChannel(i, U32(nsamples))
           idx == SplitIndex(i, U32(nsamples))
       IN  IF ch >= nbufs THEN [d EXCEPT !.fault = TRUE]
           ELSE SplitLoop([data |-> [c \in DOMAIN d.data |->
                                       IF c = ch THEN Store(d.data[c], idx, tempBuf[i])
                                       ELSE d.data[c]],
                           written |-> d.written \cup {<<ch, idx>>},
                           fault |-> FALSE],
                          tempBuf, nsamples, nbufs, i + 1)

\* the receive path from rx_buffer (after the vendor's own de-interleaving)
\* to the nbufs per-channel buffers of 2 * nsamples floats each
LayoutRecv(rx_buffer, nsamples, nbufs) ==
  SplitLoop([data |-> [c \in Ports |-> Zeros(2 * nsamples)], written |-> {}, fault |-> FALSE],
            srsran_vec_convert_if(rx_buffer), nsamples, nbufs, 0)

(***************************************************************************)
(* State, actions                                                           *)
(***************************************************************************)
NoDevice ==
  [acquired |-> FALSE, rx_on |-> [p \in Ports |-> FALSE], tx_on |-> [p \in Ports |-> FALSE]]

NoCall ==
  [op |-> "none", in |-> <<>>, ret |-> 0, calls |-> <<>>, events |-> <<>>, log |-> <<>>,
   meta |-> NoMeta, out |-> <<>>, crashed |-> FALSE]

\* the caller is between two driver calls
Idle == proc = "running" /\ last.op = "none"

NoConv == [stage |-> "idle"]

Init ==
  /\ proc = "running"
  /\ phase = "init"
  /\ h = "unset"
  /\ allocated = FALSE
  /\ handler = NoHandler
  /\ dev = NoDevice
  /\ blade_error_handler = "NULL"
  /\ blade_error_handler_arg = 0
  /\ last = NoCall
  /\ conv = NoConv

\* the most vendor calls rf_blade_open_multi issues: bladerf_open, then per
\* channel 3 (RX loop) + 1 (TX loop) + 2 (TX rate) + 2 (RX rate)
OpenCalls == 1 + 8 * BLADERF_MAX_PORTS

\* the rates the device grants, per channel
Grants == [Ports -> Rates]

\* the device grants rate r on every channel
Grant(r) == [p \in Ports |-> r]

\* the device grants the rate asked for, in both directions
GrantsAsAsked == {[tx |-> Grant(DEFAULT_SRATE), rx |-> Grant(DEFAULT_SRATE)]}

\* the device grants any of its rates, in each direction
GrantsAny == {[tx |-> Grant(t), rx |-> Grant(r)] : t \in Rates, r \in Rates}

OpenWith(nof_channels, single, F, g, act, mallocOk, ub) ==
  LET pre == [h |-> h, allocated |-> allocated, hd |-> handler, dv |-> dev]
      r   == IF single THEN rf_blade_open(pre, F, g, act, mallocOk, ub)
             ELSE rf_blade_open_multi(pre, nof_channels, F, g, act, mallocOk, ub)
  IN  /\ Idle
      /\ phase = "init"
      /\ h' = r.h
      /\ allocated' = r.allocated
      /\ handler' = r.hd
      /\ dev' = r.dv
      /\ proc' = IF r.crashed THEN "crashed" ELSE "running"
      /\ phase' = IF r.ret = SRSRAN_SUCCESS /\ ~r.crashed THEN "opened" ELSE phase
      /\ last' = [NoCall EXCEPT !.op = IF single THEN "open" ELSE "open_multi",
                                !.in = [nof_channels |-> nof_channels],
                                !.ret = r.ret, !.calls = r.calls, !.log = r.log,
                                !.crashed = r.crashed]
      /\ UNCHANGED <<blade_error_handler, blade_error_handler_arg, conv>>

\* The inputs of one open call.  The oracle ranges over the vendor calls a
\* call with nof_channels channels can issue; what does not reach the code
\* (the block's content when malloc fails, ub when a channel loop ran) is
\* held at one value.
OpenInputs(nofs, grants) ==
  LET none == [flag |-> FALSE, rate |-> 0]
      asked == CHOOSE a \in GrantsAsAsked : TRUE
  IN  UNION {IF TooManyChannels(n)
             THEN {[nof_channels |-> n, F |-> {}, g |-> none, act |-> asked,
                    mallocOk |-> TRUE, ub |-> "crash"]}
             ELSE {[nof_channels |-> n, F |-> {}, g |-> none, act |-> asked,
                    mallocOk |-> FALSE, ub |-> "crash"]}
                  \cup [nof_channels : {n}, F : Oracles(1 + 8 * n), g : Garbage,
                        act : grants, mallocOk : {TRUE},
                        ub : IF n = 0 THEN {"crash", "garbage"} ELSE {"crash"}]
             : n \in nofs}

OpenMulti ==
  /\ Idle /\ phase = "init"
  /\ \E i \in OpenInputs(0 .. (MAX_OPEN_CHANNELS + MaxExtraChannels), GrantsAsAsked) :
    OpenWith(i.nof_channels, FALSE, i.F, i.g, i.act, i.mallocOk, i.ub)

Open ==
  /\ Idle /\ phase = "init"
  /\ \E i \in OpenInputs({1}, GrantsAsAsked) :
    OpenWith(1, TRUE, i.F, i.g, i.act, i.mallocOk, i.ub)

\* Run a driver function on the open handle: r is its result [m, ret]
Finish(op, in, r) ==
  /\ handler' = r.m.hd
  /\ dev' = r.m.dv
  /\ last' = [NoCall EXCEPT !.op = op, !.in = in, !.ret = r.ret, !.calls = r.m.calls,
                            !.events = r.m.events, !.log = r.m.log, !.meta = r.m.meta]

Usable == Idle /\ phase = "opened"

Close ==
  /\ Usable
  /\ Finish("close", <<>>, rf_blade_close(Machine(handler, dev)))
  /\ phase' = "closed"
  /\ UNCHANGED <<proc, h, allocated, blade_error_handler, blade_error_handler_arg, conv>>

\* sync_config twice, then one enable per TX and per RX channel
StartCalls == 2 + 2 * BLADERF_MAX_PORTS

StartRxStream ==
  /\ Usable
  /\ \E F \in Oracles(StartCalls) :
    /\ Usable
    /\ Finish("start_rx_stream", <<>>, rf_blade_start_rx_stream(Machine(handler, dev), F))
    /\ UNCHANGED <<proc, phase, h, allocated, blade_error_handler, blade_error_handler_arg, conv>>

StopRxStream ==
  /\ Usable
  /\ \E F \in Oracles(2 * BLADERF_MAX_PORTS) :
    /\ Usable
    /\ Finish("stop_rx_stream", <<>>, rf_blade_stop_rx_stream(Machine(handler, dev), F))
    /\ UNCHANGED <<proc, phase, h, allocated, blade_error_handler, blade_error_handler_arg, conv>>

\* rf_blade_register_error_handler
RegisterErrorHandler ==
  /\ Idle
  /\ \E new_handler \in {"NULL", "fn"}, arg \in 0 .. MaxArg :
    /\ Idle
    /\ blade_error_handler' = new_handler
    /\ blade_error_handler_arg' = arg
    /\ last' = [NoCall EXCEPT !.op = "register_error_handler"]
    /\ UNCHANGED <<proc, phase, h, allocated, handler, dev, conv>>

\* the registered handler, as the send and receive paths read it
Registered == [fn |-> blade_error_handler, arg |-> blade_error_handler_arg]

AllTxEnabled == \A ch \in Ports : ch < handler.nof_tx_channels => handler.tx_stream_enabled[ch]

\* the vendor calls the lazy start of a send can issue: none when every TX
\* channel is enabled, else one start (1 + nof calls) per channel
SendOracles ==
  IF AllTxEnabled THEN {{}} ELSE Oracles(BLADERF_MAX_PORTS * (1 + BLADERF_MAX_PORTS))

\* outcomes of bladerf_sync_tx: its status, and the meta.status it leaves
TxOutcomes ==
  {[status |-> st, meta_status |-> 0] : st \in {BLADERF_ERR_TIME_PAST, BLADERF_ERR_IO}}
  \cup {[status |-> 0, meta_status |-> ms] : ms \in {0, BLADERF_META_STATUS_UNDERRUN}}

SendWith(single, F, i, x) ==
  /\ Usable
  /\ Finish(IF single THEN "send_timed" ELSE "send_timed_multi",
            i @@ [x |-> x, pre_tx_on |-> handler.tx_stream_enabled, tx_rate |-> handler.tx_rate],
            IF single THEN rf_blade_send_timed(Machine(handler, dev), F, i, x, Registered)
            ELSE rf_blade_send_timed_multi(Machine(handler, dev), F, i, x, Registered))
  /\ UNCHANGED <<proc, phase, h, allocated, blade_error_handler, blade_error_handler_arg, conv>>

\* sends of the stream-control specification: an untimed one-sample burst,
\* and one the guard rejects
SendInputsBasic ==
  {[nsamples |-> n, secs |-> 0, fnum |-> 0, has_time_spec |-> FALSE, sob |-> TRUE, eob |-> TRUE]
     : n \in {1, CONVERT_BUFFER_SIZE}}

\* every combination of the three flags; a time (secs, fnum / FRAC_DEN)
\* where the caller gives one
SendInputsAll ==
  {i \in [nsamples : (0 .. MaxN) \cup {GuardLimit, GuardLimit + 1}, secs : {0, 1},
          fnum : 0 .. (FRAC_DEN - 1), has_time_spec : BOOLEAN, sob : BOOLEAN, eob : BOOLEAN]
     : ~i.has_time_spec => i.secs = 0 /\ i.fnum = 0}

SendTimedMulti ==
  /\ Usable
  /\ \E F \in SendOracles, i \in SendInputsBasic, x \in TxOutcomes : SendWith(FALSE, F, i, x)

SendTimedMultiIO ==
  /\ Usable
  /\ \E F \in SendOracles, i \in SendInputsAll, x \in TxOutcomes : SendWith(FALSE, F, i, x)

SendTimedIO ==
  /\ Usable
  /\ \E F \in SendOracles, i \in SendInputsAll, x \in TxOutcomes : SendWith(TRUE, F, i, x)

\* hardware timestamps a receive may report
Timestamps == {U64(0), U64((3 * DEFAULT_SRATE) \div 2)}

\* outcomes of bladerf_sync_rx
RxOutcomes ==
  {[status |-> BLADERF_ERR_IO, meta_status |-> 0, actual_count |-> 0, timestamp |-> U64(0)]}
  \cup {[status |-> 0, meta_status |-> 0, actual_count |-> 0, timestamp |-> t] : t \in Timestamps}
  \cup {[status |-> 0, meta_status |-> BLADERF_META_STATUS_OVERRUN, actual_count |-> c,
         timestamp |-> t] : c \in 0 .. MaxN, t \in Timestamps}

\* a store past rx_buffer either faults at once or corrupts the heap
Overruns(nsamples) ==
  IF RxGuard(nsamples) THEN {"crash"}
  ELSE IF RxOverflows(nsamples) THEN {"crash", "corrupt"}
  ELSE IF SplitStraysAt[nsamples] THEN {"crash", "corrupt"}
  ELSE {"crash"}

RecvWith(single, nsamples, x, ub) ==
  LET m == Machine(handler, dev)
      r == IF single THEN rf_blade_recv_with_time(m, nsamples, x, Registered, ub)
           ELSE rf_blade_recv_with_time_multi(m, nsamples, handler.nof_rx_channels, x,
                                              Registered, ub)
  IN  /\ Usable
      /\ handler' = r.m.hd
      /\ dev' = r.m.dv
      /\ proc' = CASE r.fault = "none" -> "running"
                   [] r.fault = "crash" -> "crashed"
                   [] OTHER -> "corrupted"
      /\ last' = [NoCall EXCEPT !.op = IF single THEN "recv_with_time" ELSE "recv_with_time_multi",
                                !.in = [nsamples |-> nsamples, x |-> x,
                                        rx_rate |-> handler.rx_rate, pre_hd |-> handler,
                                        nbufs |-> IF single THEN 1
                                                  ELSE handler.nof_rx_channels],
                                !.ret = r.ret, !.calls = r.m.calls, !.events = r.m.events,
                                !.log = r.m.log,
                                !.out = [overflow |-> r.overflow, converted |-> r.converted,
                                         null_store |-> r.null_store, stray |-> r.stray,
                                         time |-> r.time],
                                !.crashed = r.fault # "none"]
      /\ UNCHANGED <<phase, h, allocated, blade_error_handler, blade_error_handler_arg, conv>>

RecvWithTime ==
  /\ Usable
  /\ \E nsamples \in RecvSamples, x \in RxOutcomes :
    \E ub \in Overruns(nsamples) : RecvWith(TRUE, nsamples, x, ub)

RecvWithTimeMulti ==
  /\ Usable
  /\ \E nsamples \in RecvSamples, x \in RxOutcomes :
    \E ub \in Overruns(nsamples) : RecvWith(FALSE, nsamples, x, ub)

\* the caller takes the result of the call and goes on
Return ==
  /\ proc = "running"
  /\ last.op # "none"
  /\ last' = NoCall
  /\ UNCHANGED <<proc, phase, h, allocated, handler, dev, blade_error_handler,
                 blade_error_handler_arg, conv>>

\* Lifecycle and stream control
Next ==
  OpenMulti \/ Open \/ Close \/ StartRxStream \/ StopRxStream \/ SendTimedMulti \/ Return

Spec == Init /\ [][Next]_vars

\* Timed send and receive on an open handle: the states a fault-free open
\* of 0, 1 or 2 channels leaves
Opened(nofs, grants) ==
  {r \in {rf_blade_open_multi([h |-> "unset", allocated |-> FALSE, hd |-> NoHandler,
                               dv |-> NoDevice],
                              i.nof_channels, i.F, i.g, i.act, i.mallocOk, i.ub)
          : i \in OpenInputs(nofs, grants)}
     : r.ret = SRSRAN_SUCCESS /\ ~r.crashed /\ \A k \in 1 .. Len(r.calls) : r.calls[k].status = 0}

InitOpened(nofs, grants) ==
  /\ proc = "running"
  /\ phase = "opened"
  /\ \E r \in Opened(nofs, grants) :
       /\ h = r.h
       /\ allocated = r.allocated
       /\ handler = r.hd
       /\ dev = r.dv
  /\ blade_error_handler = "NULL"
  /\ blade_error_handler_arg = 0
  /\ last = NoCall
  /\ conv = NoConv

InitIO == InitOpened(0 .. MAX_OPEN_CHANNELS, GrantsAny)

NextIO ==
  RegisterErrorHandler \/ SendTimedIO \/ SendTimedMultiIO \/ RecvWithTime
  \/ RecvWithTimeMulti \/ Return

SpecIO == InitIO /\ [][NextIO]_vars

\* The multi-channel setters on an open handle
Gains == {0, RX_GAIN_RANGE_MAX}

SetWith(op, in, r) ==
  /\ Finish(op, in, r)
  /\ UNCHANGED <<proc, phase, h, allocated, blade_error_handler, blade_error_handler_arg, conv>>

SetRxSrate ==
  /\ Usable
  /\ \E F \in Oracles(2 * BLADERF_MAX_PORTS), freq \in Rates, act \in Grants :
       SetWith("set_rx_srate", [freq |-> freq, act |-> act, nof |-> handler.nof_rx_channels],
               rf_blade_set_rx_srate(Machine(handler, dev), F, freq, act))

SetTxSrate ==
  /\ Usable
  /\ \E F \in Oracles(2 * BLADERF_MAX_PORTS), freq \in Rates, act \in Grants :
       SetWith("set_tx_srate", [freq |-> freq, act |-> act, nof |-> handler.nof_tx_channels],
               rf_blade_set_tx_srate(Machine(handler, dev), F, freq, act))

SetRxGain ==
  /\ Usable
  /\ \E F \in Oracles(BLADERF_MAX_PORTS), gain \in Gains :
       SetWith("set_rx_gain", [gain |-> gain, nof |-> handler.nof_rx_channels],
               rf_blade_set_rx_gain(Machine(handler, dev), F, gain))

SetTxGain ==
  /\ Usable
  /\ \E F \in Oracles(BLADERF_MAX_PORTS), gain \in Gains :
       SetWith("set_tx_gain", [gain |-> gain, nof |-> handler.nof_tx_channels],
               rf_blade_set_tx_gain(Machine(handler, dev), F, gain))

InitSet == InitOpened(0 .. MAX_OPEN_CHANNELS, GrantsAsAsked)

NextSet == SetRxSrate \/ SetTxSrate \/ SetRxGain \/ SetTxGain \/ Return

SpecSet == InitSet /\ [][NextSet]_vars

\* The layout round trip: per-channel buffers through the send layout, then
\* through the receive split

\* the content of channel ch at float j: every float of the call differs
\* from every other by at least one fixed-point step
Sample(c, ch, j) == c.sign * (SUB * (c.seed + 1 + ch * 2 * c.nsamples + j) + c.off)

InitLayout ==
  /\ proc = "running"
  /\ phase = "init"
  /\ h = "unset"
  /\ allocated = FALSE
  /\ handler = NoHandler
  /\ dev = NoDevice
  /\ blade_error_handler = "NULL"
  /\ blade_error_handler_arg = 0
  /\ last = NoCall
  /\ \E c \in [nsamples : {2 * k : k \in 1 .. MaxPairs}, nch : 1 .. BLADERF_MAX_PORTS,
                seed : 0 .. MaxSeed, off : 0 .. (SUB - 1), sign : {-1, 1}] :
       conv = [stage |-> "input", nsamples |-> c.nsamples, nch |-> c.nch,
               src |-> [ch \in Ports |-> [j \in 0 .. (2 * c.nsamples - 1) |->
                          \* rf_blade_send_timed passes zero_mem as data[1]
                          IF ch < c.nch THEN Sample(c, ch, j) ELSE 0]]]

\* rf_blade_send_timed (one channel) or rf_blade_send_timed_multi (two)
SendLayout ==
  /\ conv.stage = "input"
  /\ conv' = [stage |-> "sent", nsamples |-> conv.nsamples, nch |-> conv.nch, src |-> conv.src,
               wire |-> LayoutSend(conv.src, conv.nsamples)]
  /\ UNCHANGED <<proc, phase, h, allocated, handler, dev, blade_error_handler,
                 blade_error_handler_arg, last>>

\* rf_blade_recv_with_time (data[1] = NULL) or rf_blade_recv_with_time_multi
RecvLayout ==
  /\ conv.stage = "sent"
  /\ conv' = [stage |-> "received", nsamples |-> conv.nsamples, nch |-> conv.nch,
               src |-> conv.src, wire |-> conv.wire,
               dst |-> LayoutRecv(conv.wire, conv.nsamples, conv.nch)]
  /\ UNCHANGED <<proc, phase, h, allocated, handler, dev, blade_error_handler,
                 blade_error_handler_arg, last>>

NextLayout == SendLayout \/ RecvLayout

SpecLayout == InitLayout /\ [][NextLayout]_vars

\* The time query and the timed receive at the rates and timestamps of
\* TimeSamples

\* rf_blade_set_rx_srate; the device grants the rate asked for
SetRxSrateTime ==
  /\ Usable
  /\ \E F \in Oracles(2 * BLADERF_MAX_PORTS), freq \in TimeRates \ {0} :
       SetWith("set_rx_srate", [freq |-> freq, act |-> Grant(freq), nof |-> handler.nof_rx_channels],
               rf_blade_set_rx_srate(Machine(handler, dev), F, freq, Grant(freq)))

GetTime ==
  /\ Usable
  /\ \E F \in Oracles(1), timestamp \in TimeSamples :
     \E junk \in IF F = {} THEN {timestamp} ELSE TimeSamples :
       LET r == rf_blade_get_time(Machine(handler, dev), F, timestamp, junk)
       IN  /\ handler' = r.m.hd
           /\ dev' = r.m.dv
           /\ last' = [NoCall EXCEPT !.op = "get_time",
                                     !.in = [rx_rate |-> handler.rx_rate],
                                     !.ret = r.ret, !.calls = r.m.calls, !.log = r.m.log,
                                     !.out = [timestamp |-> r.timestamp, time |-> r.time]]
           /\ UNCHANGED <<proc, phase, h, allocated, blade_error_handler,
                          blade_error_handler_arg, conv>>

\* transfers that succeed, stamped with any of TimeSamples
TimedRxOutcomes ==
  {[status |-> 0, meta_status |-> 0, actual_count |-> 0, timestamp |-> t] : t \in TimeSamples}

RecvWithTimeAt ==
  /\ Usable
  /\ \E nsamples \in {U32(0), U32(MaxN)}, x \in TimedRxOutcomes : RecvWith(TRUE, nsamples, x, "crash")

RecvWithTimeMultiAt ==
  /\ Usable
  /\ \E nsamples \in {U32(0), U32(MaxN)}, x \in TimedRxOutcomes : RecvWith(FALSE, nsamples, x, "crash")

InitTime == InitOpened(0 .. MAX_OPEN_CHANNELS, GrantsAsAsked)

NextTime == SetRxSrateTime \/ GetTime \/ RecvWithTimeAt \/ RecvWithTimeMultiAt \/ Return

SpecTime == InitTime /\ [][NextTime]_vars

(***************************************************************************)
(* Claims                                                                   *)
(***************************************************************************)
IsOpen == last.op \in {"open", "open_multi"}
IsSend == last.op \in {"send_timed", "send_timed_multi"}
IsRecv == last.op \in {"recv_with_time", "recv_with_time_multi"}

\* some vendor call of the last driver call failed
SomeCallFailed == \E k \in 1 .. Len(last.calls) : last.calls[k].status # 0

\* C1: for every channel of the handle, the RX (TX) stream-enabled flag is
\* true exactly when the most recent successful enable/disable call for that
\* RX (TX) channel module was an enable, whatever calls failed on the way.
C1_FlagsTrackEnables ==
  \A ch \in Ports :
    /\ ch < handler.nof_rx_channels => handler.rx_stream_enabled[ch] = dev.rx_on[ch]
    /\ ch < handler.nof_tx_channels => handler.tx_stream_enabled[ch] = dev.tx_on[ch]

\* a start that failed partway through the RX channel loop: the TX channels
\* and RX channel 0 are enabled, RX channel 1 is not
C1_Witness ==
  /\ last.op = "start_rx_stream"
  /\ SomeCallFailed
  /\ handler.nof_rx_channels = 2
  /\ handler.rx_stream_enabled[0] /\ ~handler.rx_stream_enabled[1]
  /\ handler.tx_stream_enabled[0] /\ handler.tx_stream_enabled[1]

\* C2: if any step of open fails, open returns an error, and the caller is
\* left with no usable or dangling handle and no acquired device.
C2_OpenFailsCleanly ==
  IsOpen /\ SomeCallFailed =>
    /\ last.ret # SRSRAN_SUCCESS
    /\ phase # "opened"
    /\ ~(h = "handler" /\ ~allocated)
    /\ ~dev.acquired

\* C7: every transfer a send issues is issued with all TX channel flags
\* true, and a send that found all of them true issues no sync_config or
\* enable_module call.
C7_TransferAfterStart ==
  IsSend =>
    /\ \A k \in 1 .. Len(last.calls) :
         last.calls[k].fn = "bladerf_sync_tx" =>
           \A ch \in Ports : ch < handler.nof_tx_channels => last.calls[k].tx_on[ch]
    /\ (\A ch \in Ports : ch < handler.nof_tx_channels => last.in.pre_tx_on[ch])
         => \A k \in 1 .. Len(last.calls) : last.calls[k].fn = "bladerf_sync_tx"

\* C10: open_multi with more than 2 channels returns an error with no vendor
\* call issued, nothing allocated and the caller's pointer not written;
\* open, and open_multi with at most 2 channels, are never rejected so.
C10_Step ==
  IsOpen' /\ last.op = "none" =>
    IF last'.in.nof_channels > MAX_OPEN_CHANNELS
    THEN /\ last'.ret = SRSRAN_ERROR
         /\ last'.calls = <<>>
         /\ h' = h /\ allocated' = allocated /\ handler' = handler /\ dev' = dev
    ELSE /\ \A k \in 1 .. Len(last'.log) :
              last'.log[k] # "maximum number of channels exceeded"
         /\ (last'.op = "open" => last'.in.nof_channels = 1)
         \* past the check: the pointer is written, and unless malloc failed
         \* the device open is attempted
         /\ h' # "unset"
         /\ (h' = "handler" => Len(last'.calls) >= 1 /\ last'.calls[1].fn = "bladerf_open")

C10_TooManyChannelsRejectedFirst == [][C10_Step]_vars

C10_Witness ==
  /\ last.op = "open_multi"
  /\ last.in.nof_channels > MAX_OPEN_CHANNELS
  /\ last.ret = SRSRAN_ERROR
  /\ h = "unset" /\ ~allocated /\ ~dev.acquired

\* a line of the last driver call's log
Logged(line) == \E k \in 1 .. Len(last.log) : last.log[k] = line

\* the one invocation of the registered handler the last call made
OneEvent(type, opt) ==
  last.events = <<[type |-> type, opt |-> opt, arg |-> blade_error_handler_arg]>>

HandlerRegistered == blade_error_handler # "NULL"

\* C4: a timed receive of more than CONVERT_BUFFER_SIZE / BLADERF_MAX_PORTS
\* samples returns a negative value, issues no vendor call and leaves the
\* handle as it was; a receive of at most that many stores and converts no
\* more int16_t values than rx_buffer holds.
C4_GuardBoundsScratch ==
  IsRecv =>
    IF U32Gt(last.in.nsamples, GuardLimit)
    THEN /\ last.ret < 0
         /\ last.calls = <<>>
         /\ handler = last.in.pre_hd
    ELSE /\ ~last.out.overflow
         /\ last.out.converted <= RxBufferCapacity

\* C5: for a transfer a send issued: a time-past status and an underrun
\* status make the send return nsamples after invoking the registered
\* handler exactly once with kind late, resp. underflow, or after logging a
\* line when none is registered; any other non-zero status is returned as it
\* is with the handler not invoked.
C5_SendStatusRelay ==
  IsSend /\ last.meta.issued =>
    LET x == last.in.x
        Relayed(type, line) ==
          /\ last.ret = last.in.nsamples
          /\ IF HandlerRegistered THEN OneEvent(type, 0) /\ ~Logged(line)
             ELSE last.events = <<>> /\ Logged(line)
    IN  CASE x.status = BLADERF_ERR_TIME_PAST -> Relayed("LATE", "TX failed")
          [] x.status # 0 /\ x.status # BLADERF_ERR_TIME_PAST ->
               last.ret = x.status /\ last.events = <<>>
          [] x.status = 0 /\ x.meta_status = BLADERF_META_STATUS_UNDERRUN ->
               Relayed("UNDERFLOW", "TX warning: underflow detected.")
          [] OTHER -> last.ret = last.in.nsamples /\ last.events = <<>>

\* a late transfer relayed to the registered handler
C5_Witness ==
  /\ IsSend /\ last.meta.issued
  /\ last.in.x.status = BLADERF_ERR_TIME_PAST
  /\ HandlerRegistered
  /\ OneEvent("LATE", 0)
  /\ last.in.nsamples > 0 /\ last.ret = last.in.nsamples

\* the transfer of the last receive succeeded
RecvTransferred ==
  /\ IsRecv
  /\ Len(last.calls) = 1 /\ last.calls[1].status = 0
  /\ ~last.out.overflow

RecvOverrun == (last.in.x.meta_status \div BLADERF_META_STATUS_OVERRUN) % 2 = 1

\* C6: with a handler registered, a receive whose transfer succeeds with the
\* overrun bit set invokes the handler exactly once with the registered
\* argument, kind overflow and opt = actual_count, and still completes and
\* returns nsamples; without the overrun bit the handler is not invoked.
C6_OverrunRelayedOnce ==
  RecvTransferred /\ HandlerRegistered =>
    IF RecvOverrun
    THEN /\ OneEvent("OVERFLOW", last.in.x.actual_count)
         /\ ~last.crashed
         /\ last.ret = U32Val(last.in.nsamples)
    ELSE last.events = <<>>

\* C8 as stated: every transfer a send issues carries burst-start iff
\* is_start_of_burst, burst-end iff is_end_of_burst, and exactly one of the
\* timestamp of (secs, frac_secs) at the TX rate (has_time_spec) or TX_NOW
\* (no time spec), for every combination of the three booleans.
C8_AsStated ==
  IsSend /\ last.meta.issued =>
    LET i == last.in
    IN  /\ ("TX_BURST_START" \in last.meta.flags) = i.sob
        /\ ("TX_BURST_END" \in last.meta.flags) = i.eob
        /\ ("TX_NOW" \in last.meta.flags) = ~i.has_time_spec
        /\ i.has_time_spec =>
             last.meta.timestamp = srsran_timestamp_uint64(i.secs, i.fnum, i.tx_rate)

\* C8: every transfer a send issues carries burst-start iff
\* is_start_of_burst and burst-end iff is_end_of_burst; a transfer that
\* starts a burst carries exactly one of the timestamp of (secs, frac_secs)
\* at the TX rate (has_time_spec) or TX_NOW (no time spec); a transfer that
\* does not start a burst carries neither: no TX_NOW and a zero timestamp.
C8_TimeOnlyAtBurstStart ==
  IsSend /\ last.meta.issued =>
    LET i == last.in
    IN  /\ ("TX_BURST_START" \in last.meta.flags) = i.sob
        /\ ("TX_BURST_END" \in last.meta.flags) = i.eob
        /\ ("TX_NOW" \in last.meta.flags) = (i.sob /\ ~i.has_time_spec)
        /\ last.meta.timestamp =
             IF i.sob /\ i.has_time_spec
             THEN srsran_timestamp_uint64(i.secs, i.fnum, i.tx_rate) ELSE 0

\* a timed transfer in the middle of a burst, and its time is not zero
C8_Witness ==
  /\ IsSend /\ last.meta.issued
  /\ ~last.in.sob /\ last.in.has_time_spec
  /\ srsran_timestamp_uint64(last.in.secs, last.in.fnum, last.in.tx_rate) > 0
  /\ last.meta.timestamp = 0
  /\ last.meta.flags \subseteq {"TX_BURST_END"}

IsGainSet == last.op \in {"set_rx_gain", "set_tx_gain"}
IsSrateSet == last.op \in {"set_rx_srate", "set_tx_srate"}
IsRxSet == last.op \in {"set_rx_gain", "set_rx_srate"}

\* the module the last setter addresses for channel ch
SetModule(ch) == IF IsRxSet THEN BLADERF_CHANNEL_RX(ch) ELSE BLADERF_CHANNEL_TX(ch)

\* the last setter's k-th vendor call applies the new setting
IsSetting(k) ==
  /\ last.calls[k].fn = IF IsGainSet THEN "bladerf_set_gain" ELSE "bladerf_set_sample_rate"
  /\ last.calls[k].arg = IF IsGainSet THEN last.in.gain ELSE last.in.freq

\* channel ch has the new setting: every call the setter makes for it succeeded
SettingApplied(ch) ==
  /\ \E k \in 1 .. Len(last.calls) :
       IsSetting(k) /\ last.calls[k].ch = SetModule(ch) /\ last.calls[k].status = 0
  /\ \A k \in 1 .. Len(last.calls) : last.calls[k].ch = SetModule(ch) => last.calls[k].status = 0
  /\ IsSrateSet =>
       \E k \in 1 .. Len(last.calls) :
         last.calls[k].fn = "bladerf_set_bandwidth" /\ last.calls[k].ch = SetModule(ch)

\* C9: a multi-channel setter on a handle with N channels issues its vendor
\* calls in increasing channel order, one setting call per channel; when the
\* call for channel k fails it returns a negative status with no call for a
\* channel above k and channels below k keeping the new setting; when no
\* call fails every channel below N has the new setting and the setter
\* reports success.
C9_SetterAbortsWithoutRollback ==
  IsGainSet \/ IsSrateSet =>
    LET c == last.calls
        n == Len(c)
        N == last.in.nof
        chan(k) == IF IsRxSet THEN c[k].ch \div 2 ELSE (c[k].ch - 1) \div 2
    IN  /\ \A k \in 1 .. n : c[k].ch = SetModule(chan(k)) /\ chan(k) < N
        /\ \A j, k \in 1 .. n :
             j < k => /\ chan(j) <= chan(k)
                      /\ IsSetting(j) /\ IsSetting(k) => chan(j) < chan(k)
        /\ \A k \in 1 .. n : k < n => c[k].status = 0
        /\ IF n > 0 /\ c[n].status # 0
           THEN /\ last.ret < 0
                /\ \A ch \in Ports : ch < chan(n) => SettingApplied(ch)
           ELSE /\ \A ch \in Ports : ch < N => SettingApplied(ch)
                /\ IsGainSet => last.ret = SRSRAN_SUCCESS
                /\ IsSrateSet /\ N > 0 => last.ret = last.in.act[N - 1] /\ last.ret >= 0

\* a gain set on two channels whose second call failed
C9_Witness ==
  /\ last.op = "set_rx_gain"
  /\ last.in.nof = 2
  /\ Len(last.calls) = 2
  /\ last.calls[1].status = 0 /\ last.calls[1].arg = last.in.gain
  /\ last.calls[2].status # 0
  /\ last.ret = SRSRAN_ERROR

\* C3: the receive split undoes the send layout, for 1 and for 2 channels
\* and every even n: every float the send layout carries comes back in the
\* same channel at the same index, within one fixed-point step, and the
\* split stores to those positions only, each exactly once.
C3_RoundTrip ==
  conv.stage = "received" =>
    LET carried == {<<ch, j>> : ch \in 0 .. (conv.nch - 1), j \in 0 .. (conv.nsamples - 1)}
    IN  /\ ~conv.dst.fault
        /\ \A p \in carried :
             /\ conv.dst.data[p[1]][p[2]] - conv.src[p[1]][p[2]] < SUB
             /\ conv.src[p[1]][p[2]] - conv.dst.data[p[1]][p[2]] < SUB
        /\ conv.nch = BLADERF_MAX_PORTS => conv.dst.written = carried

RECURSIVE ExactDivLoop(_, _, _, _, _)
\* the integer quotient (a bit string) and the remainder of D / rate
ExactDivLoop(D, rate, pos, rem, q) ==
  IF pos > Len(D) THEN [quot |-> Strip(q), rem |-> rem]
  ELSE LET r2 == 2 * rem + D[pos]
           qb == IF r2 >= rate THEN 1 ELSE 0
       IN  ExactDivLoop(D, rate, pos + 1, r2 - qb * rate, Append(q, qb))

\* floor(t / rate) and t mod rate
ExactDiv(t, rate) == ExactDivLoop(Bits64(t), rate, 1, 0, <<>>)

RECURSIVE FracTimesRate(_, _, _, _, _, _)
\* frac * rate, for the binary fraction frac (bits after the point), from
\* its bit k down to its first: whole + half / 2 + something in [0, 1/2)
\* that is non-zero iff rest is frac[k + 1 ..] * rate.  A bit b put in front
\* of a fraction f makes (b + f) / 2.
FracTimesRate(frac, rate, k, whole, half, rest) ==
  IF k = 0 THEN [whole |-> whole, half |-> half, rest |-> rest]
  ELSE LET v == frac[k] * rate + whole
       IN  IF half = 1 \/ rest
           THEN FracTimesRate(frac, rate, k - 1, v \div 2, v % 2, TRUE)
           ELSE FracTimesRate(frac, rate, k - 1, v \div 2, v % 2, FALSE)

\* frac * rate is within half a tick of ticks
WithinHalfTick(frac, rate, ticks) ==
  LET p == FracTimesRate(frac, rate, Len(frac), 0, 0, FALSE)
  IN  \/ p.whole = ticks /\ (p.half = 0 \/ ~p.rest)
      \/ p.whole = ticks - 1 /\ p.half = 1

\* the last call converted a timestamp the hardware gave it
TimeConverted ==
  \/ last.op = "get_time" /\ last.calls[1].status = 0
  \/ RecvTransferred

ConvertedTimestamp ==
  IF last.op = "get_time" THEN last.out.timestamp ELSE last.in.x.timestamp

\* C11: for every RX rate r > 0 and hardware timestamp t, the time query
\* and the timed receive report floor(t / r) whole seconds and the fraction
\* (t mod r) / r (to the tick: the reported fraction times r is within half
\* a tick of t mod r), both converting at the handle's current RX rate.
C11_TimestampConversion ==
  TimeConverted /\ handler.rx_rate > 0 =>
    LET t == ConvertedTimestamp
        e == ExactDiv(t, handler.rx_rate)
    IN  /\ last.in.rx_rate = handler.rx_rate
        /\ last.out.time.defined
        /\ last.out.time.secs = e.quot
        /\ WithinHalfTick(last.out.time.frac_secs, handler.rx_rate, e.rem)

\* bw is 80% of rate, cut to an integer
IsEightyPercent(bw, rate) == 5 * bw <= 4 * rate /\ 4 * rate < 5 * (bw + 1)

\* the last setter's k-th call requests a bandwidth: the call before it set
\* the same channel's sample rate and the device returned an actual rate
BandwidthRequested(k) ==
  /\ last.calls[k].fn = "bladerf_set_bandwidth"
  /\ k > 1
  /\ last.calls[k - 1].fn = "bladerf_set_sample_rate"
  /\ last.calls[k - 1].status = 0
  /\ last.calls[k - 1].ch = last.calls[k].ch

\* no call of the last setter failed and every channel got both calls
SrateSetSucceeded ==
  /\ IsSrateSet
  /\ ~SomeCallFailed
  /\ Len(last.calls) = 2 * last.in.nof
  /\ \A ch \in Ports : ch < last.in.nof => last.calls[2 * ch + 2].ch = SetModule(ch)

\* C12 as stated: in both directions the bandwidth requested for a channel
\* is the actual rate the device returned when that is below 2 MHz and 80%
\* of it when it is 2 MHz or above.
C12_AsStated ==
  IsSrateSet =>
    \A k \in 1 .. Len(last.calls) :
      last.calls[k].fn = "bladerf_set_bandwidth" =>
        /\ BandwidthRequested(k)
        /\ LET actual == last.calls[k - 1].out
           IN  IF actual < BW_FULL_RATE_LIMIT THEN last.calls[k].arg = actual
               ELSE IsEightyPercent(last.calls[k].arg, actual)

\* C12: the bandwidth requested for a channel is derived from the actual
\* rate the device returned for it: the RX setter requests the full rate
\* below 2 MHz and 80% of it at 2 MHz or above, the TX setter requests the
\* full rate whatever it is; a set that succeeds requests one for every
\* channel.
C12_BandwidthFromActualRate ==
  IsSrateSet =>
    /\ \A k \in 1 .. Len(last.calls) :
         last.calls[k].fn = "bladerf_set_bandwidth" =>
           /\ BandwidthRequested(k)
           /\ LET actual == last.calls[k - 1].out
              IN  IF last.op = "set_tx_srate" \/ actual < BW_FULL_RATE_LIMIT
                  THEN last.calls[k].arg = actual
                  ELSE IsEightyPercent(last.calls[k].arg, actual)
    /\ ~SomeCallFailed => SrateSetSucceeded

\* a TX rate set on two channels that the device answers with a rate above
\* 2 MHz, different from the one asked for: the full rate is requested
C12_Witness ==
  /\ last.op = "set_tx_srate"
  /\ SrateSetSucceeded
  /\ last.in.nof = 2
  /\ last.calls[3].out >= BW_FULL_RATE_LIMIT
  /\ last.calls[3].out # last.in.freq
  /\ last.calls[4].arg = last.calls[3].out
  /\ last.ret = last.calls[3].out

\* C13: a timed receive whose transfer succeeded stores only to the
\* channel buffers the caller supplied (data[0] for the single-channel
\* receive, data[0 .. nof_rx_channels - 1] for the multi-channel one), and
\* within each buffer only to its 2 * nsamples floats.
C13_WritesOnlySuppliedBuffers ==
  RecvTransferred => ~last.out.null_store /\ ~last.out.stray

====
